---- MODULE Spec2Model ----
(***************************************************************************)
(* Model of streamlit_app.py: the four cached fetch helpers (get_rba_data, *)
(* get_abs_data, get_inflation_data, get_exp_inflation_data), the script   *)
(* body that loads the four tables and renders metrics, charts and tables, *)
(* and the st.cache_data(ttl=3600) decorator the helpers run under.        *)
(*                                                                         *)
(* A pandas column is [name, dtype, data]; a DataFrame is a sequence of    *)
(* columns of equal length; pd.DataFrame() is the empty sequence.          *)
(* Dates are integers that keep the calendar fields readable and ordered:  *)
(*   period[M] label  yyyymm     (202311   is the month 2023-11)           *)
(*   period[Q] label  yyyyq      (20234    is the quarter 2023Q4)          *)
(*   datetime64       yyyymmdd   (20231101 is the day 2023-11-01)          *)
(* Floats are integers in hundredths (435 is 4.35); NaN is a sentinel.     *)
(***************************************************************************)
EXTENDS Integers, Sequences, FiniteSets, TLC

VARIABLES
    fn,       \* fetch spec: the helper that was called ("none" before a call)
    raw,      \* fetch spec: what the provider answered to that call
    out,      \* fetch spec: what the helper handed to its caller
    again,    \* fetch spec: the date column of out, put through the helper's
              \*             date clean-up a second time
    pc,       \* script: position of the script run
    resp,     \* script: provider answer per series for this run
    df,       \* script: df_rba, df_abs, df_cpi, df_exp
    metric,   \* script: what each st.metric card shows
    chart,    \* script: what each chart card shows
    crashedAt,\* script: the block whose exception stopped the run
    errors,   \* script: the series whose helper showed an st.error box
    now,      \* cache: the clock, in seconds
    cache,    \* cache: st.cache_data's entry per helper
    lock,     \* cache: holder of each helper's compute lock (0: free)
    sess,     \* cache: per session, the position in the Load Data block
    got       \* cache: per session, what its latest helper call returned

vars == <<fn, raw, out, again, pc, resp, df, metric, chart, crashedAt, errors,
          now, cache, lock, sess, got>>
fetchVars == <<fn, raw, out, again>>
scriptVars == <<pc, resp, df, metric, chart, crashedAt, errors>>
cacheVars == <<now, cache, lock, sess, got>>

---------------------------------------------------------------------------
(* Bounds of the model *)

MaxRows == 3

SeqsUpTo(S, n) == UNION {[1..k -> S] : k \in 0..n}

---------------------------------------------------------------------------
(* Values *)

NaN == -9999

MonthLabels == {202311, 202312}
QuarterLabels == {20234, 20241}
Days == {20231101, 20240101}
AltDays == {20230615}

IsPeriodDtype(dtype) == dtype \in {"period[M]", "period[Q]"}

DateDomain(dtype) ==
    CASE dtype = "period[M]" -> MonthLabels
      [] dtype = "period[Q]" -> QuarterLabels
      [] OTHER -> Days

DateDtypes == {"period[M]", "period[Q]", "datetime64"}

EmptyDataFrame == <<>>

Col(name, dtype, data) == [name |-> name, dtype |-> dtype, data |-> data]

HasColumn(d, name) == \E i \in 1..Len(d) : d[i].name = name

NRows(d) == IF Len(d) = 0 THEN 0 ELSE Len(d[1].data)

\* DataFrame.empty: True when any axis has length 0
empty(d) == Len(d) = 0 \/ NRows(d) = 0

\* the positions of the columns called name
Where(d, name) == {i \in 1..Len(d) : d[i].name = name}

TheColumn(d, name) == d[CHOOSE i \in Where(d, name) : TRUE]

---------------------------------------------------------------------------
(* Results of a try block: a frame, or an exception on its way out *)

Ok(d) == [raised |-> FALSE, error |-> FALSE, df |-> d]
Raise == [raised |-> TRUE, error |-> FALSE, df |-> EmptyDataFrame]

\* the mutant: the exception is let through to the caller
except_reraise(body) == body

\* except Exception as e: st.error(...); return pd.DataFrame()
except_Exception(body) ==
    IF body.raised
    THEN [raised |-> FALSE, error |-> TRUE, df |-> EmptyDataFrame]
    ELSE body

---------------------------------------------------------------------------
(* pandas operations used by the helpers *)

\* Period.to_timestamp() of one label: the start of the period
PeriodStart(dtype, p) ==
    IF dtype = "period[M]"
    THEN (p \div 100) * 10000 + (p % 100) * 100 + 1
    ELSE (p \div 10) * 10000 + (3 * ((p % 10) - 1) + 1) * 100 + 1

\* the mutant: to_timestamp(how='end'), a day at the end of the period
\* instead of its first day
to_timestamp_end(c) ==
    [c EXCEPT !.dtype = "datetime64",
              !.data = [i \in 1..Len(c.data) |->
                          PeriodStart(c.dtype, c.data[i]) + 29]]

\* PeriodIndex.to_timestamp() / Series.dt.to_timestamp()
to_timestamp(c) ==
    [c EXCEPT !.dtype = "datetime64",
              !.data = [i \in 1..Len(c.data) |-> PeriodStart(c.dtype, c.data[i])]]

\* pd.to_datetime(column): timestamps pass through, floats are read as an
\* offset from the epoch, Period objects are not convertible (TypeError)
to_datetime(c) ==
    CASE c.dtype = "datetime64" -> [ok |-> TRUE, col |-> c]
      [] c.dtype = "float64" ->
            [ok |-> TRUE,
             col |-> [c EXCEPT !.dtype = "datetime64",
                               !.data = [i \in 1..Len(c.data) |-> 19700101]]]
      [] OTHER -> [ok |-> FALSE, col |-> c]

\* insertion of row i into the already sorted positions perm, after every
\* row whose key is not larger (ties keep their original order)
InsertRow(perm, i, key) ==
    LET pos == Cardinality({j \in 1..Len(perm) : key[perm[j]] <= key[i]})
    IN SubSeq(perm, 1, pos) \o <<i>> \o SubSeq(perm, pos + 1, Len(perm))

RECURSIVE SortedPrefix(_, _)
SortedPrefix(key, n) ==
    IF n = 0 THEN <<>> ELSE InsertRow(SortedPrefix(key, n - 1), n, key)

argsort(key) == SortedPrefix(key, Len(key))

take(data, perm) == [j \in 1..Len(perm) |-> data[perm[j]]]

\* the mutant: the frame is returned in the provider's row order
sort_values_skipped(d, by) == d

\* DataFrame.sort_values(by): rows reordered by ascending by-column; no row
\* is dropped. (KeyError for a missing column is decided by the callers.)
sort_values(d, by) ==
    LET perm == argsort(TheColumn(d, by).data)
    IN [i \in 1..Len(d) |-> [d[i] EXCEPT !.data = take(@, perm)]]

---------------------------------------------------------------------------
(* Provider answers *)

NoName == "<None>"

ErrorResp == [kind |-> "error"]          \* the provider call raises
MalformedResp == [kind |-> "malformed"]  \* it returns something that is no table

Values == {410, NaN}

DateCols(name) ==
    UNION {{Col(name, t, d) : d \in SeqsUpTo(DateDomain(t), MaxRows)} : t \in DateDtypes}

ValueCol(name, n) == {Col(name, "float64", v) : v \in [1..n -> Values]}

\* ra.read_rba_ocr(): a Series, its index and its values
OcrSeries(i, v) == [kind |-> "ok", index |-> i, values |-> v.data]

\* the names a column of the ABS table can carry, and a table of at most two
\* data columns: the date-like ones hold days, the others hold floats
AbsColumnNames ==
    {"Series ID", "index", "date", "A84423050A", "a84423050a", "value", "other"}
AbsIndexNames == {NoName, "Series ID", "Period"}
DateLikeNames == {"Series ID", "index", "date"}

AbsColumn(name, n, vals) ==
    IF name \in DateLikeNames
    THEN Col(name, "datetime64", [i \in 1..n |-> CHOOSE a \in AltDays : TRUE])
    ELSE Col(name, "float64", vals)

AbsColumnLists(n, vals) ==
    {<<>>} \cup
    {<<AbsColumn(a, n, vals)>> : a \in AbsColumnNames} \cup
    {<<AbsColumn(p[1], n, vals), AbsColumn(p[2], n, vals)>> :
        p \in {q \in AbsColumnNames \X AbsColumnNames : q[1] # q[2]}}

\* ra.read_abs_series("6202.0", "A84423050A"): (table, meta)
AbsTable(nm, i, cs) == [kind |-> "ok", index |-> [i EXCEPT !.name = nm], cols |-> cs]

\* ra.read_rba_table(id): (table, meta); the table has the wanted column
\* code, another column, or both
TableColumnLists(code, v) ==
    {<<Col("OTHER", "float64", v.data)>>,
     <<Col(code, "float64", v.data)>>,
     <<Col("OTHER", "float64", v.data), Col(code, "float64", v.data)>>}

RbaTable(i, cs) == [kind |-> "ok", index |-> i, cols |-> cs]

---------------------------------------------------------------------------
(* get_rba_data *)

\* if isinstance(ocr_series.index, pd.PeriodIndex): index = index.to_timestamp()
ocr_index_to_timestamp(idx) ==
    IF IsPeriodDtype(idx.dtype) THEN to_timestamp(idx) ELSE idx

get_rba_data_try(r) ==
    IF r.kind = "error" THEN Raise             \* ra.read_rba_ocr() raises
    ELSE IF r.kind = "malformed" THEN Raise    \* no .index / .reset_index
    ELSE
        LET idx == ocr_index_to_timestamp(r.index)
            df_ocr == <<Col("Date", idx.dtype, idx.data),
                        Col("Cash Rate", "float64", r.values)>>
        IN Ok(sort_values(df_ocr, "Date"))

get_rba_data(r) == except_Exception(get_rba_data_try(r))

---------------------------------------------------------------------------
(* get_abs_data *)

\* DataFrame.reset_index(): the index becomes the first column, called by
\* its name, or 'index' (or 'level_0' when 'index' is taken) if it has none;
\* ValueError when a column of that name already exists
reset_index(r) ==
    LET names == {r.cols[i].name : i \in 1..Len(r.cols)}
        nm == IF r.index.name # NoName THEN r.index.name
              ELSE IF "index" \in names THEN "level_0" ELSE "index"
    IN IF nm \in names
       THEN [ok |-> FALSE, df |-> EmptyDataFrame]
       ELSE [ok |-> TRUE,
             df |-> <<Col(nm, r.index.dtype, r.index.data)>> \o r.cols]

\* str(c).lower() on the names the tables carry
lower(name) ==
    CASE name = "Series ID" -> "series id"
      [] name = "A84423050A" -> "a84423050a"
      [] name = "Period" -> "period"
      [] OTHER -> name

lower_columns(d) == [i \in 1..Len(d) |-> [d[i] EXCEPT !.name = lower(@)]]

\* DataFrame.rename(columns={from: to})
rename(d, from, to) ==
    [i \in 1..Len(d) |-> IF d[i].name = from THEN [d[i] EXCEPT !.name = to] ELSE d[i]]

\* steps 3 and 4: the three renames, each applied when its column exists
dynamic_renaming(d) ==
    LET d1 == IF HasColumn(d, "series id") THEN rename(d, "series id", "date") ELSE d
        d2 == IF HasColumn(d1, "a84423050a") THEN rename(d1, "a84423050a", "value") ELSE d1
    IN IF HasColumn(d2, "index") THEN rename(d2, "index", "date") ELSE d2

\* the mutant: the else branch moves timestamps to the next day, as a
\* conversion between time zones would
clean_up_date_shifting(c) ==
    IF IsPeriodDtype(c.dtype)
    THEN [ok |-> TRUE, col |-> to_timestamp(c)]
    ELSE [ok |-> TRUE, col |-> [c EXCEPT !.data = [i \in 1..Len(c.data) |-> c.data[i] + 1]]]

\* step 5 on the column df_unemp['date']
clean_up_date(c) ==
    IF IsPeriodDtype(c.dtype)
    THEN [ok |-> TRUE, col |-> to_timestamp(c)]
    ELSE to_datetime(c)

set_column(d, name, c) == [i \in 1..Len(d) |-> IF d[i].name = name THEN c ELSE d[i]]

get_abs_data_try(r) ==
    IF r.kind = "error" THEN Raise             \* ra.read_abs_series raises
    ELSE IF r.kind = "malformed" THEN Raise    \* cannot unpack / no reset_index
    ELSE
        LET r0 == reset_index(r)
        IN IF ~r0.ok THEN Raise
           ELSE
             LET d == dynamic_renaming(lower_columns(r0.df))
             IN IF ~HasColumn(d, "date")
                THEN Raise                     \* sort_values('date'): KeyError
                ELSE IF Cardinality(Where(d, "date")) > 1
                THEN Raise                     \* df['date'] is a frame: no .dtype
                ELSE LET c == clean_up_date(TheColumn(d, "date"))
                     IN IF ~c.ok THEN Raise
                        ELSE Ok(sort_values(set_column(d, "date", c.col), "date"))

get_abs_data(r) == except_Exception(get_abs_data_try(r))

---------------------------------------------------------------------------
(* get_inflation_data and get_exp_inflation_data *)

\* if isinstance(dtype, pd.PeriodDtype) or isinstance(iloc[0], pd.Period):
\*     df['Date'] = df['Date'].dt.to_timestamp()
\* iloc[0] is read only when the dtype is no period dtype, and raises
\* IndexError on a column without rows
Date_to_timestamp(c) ==
    IF IsPeriodDtype(c.dtype) THEN [ok |-> TRUE, col |-> to_timestamp(c)]
    ELSE IF Len(c.data) = 0 THEN [ok |-> FALSE, col |-> c]
    ELSE [ok |-> TRUE, col |-> c]

rba_table_column_try(r, code) ==
    IF r.kind = "error" THEN Raise             \* ra.read_rba_table raises
    ELSE IF r.kind = "malformed" THEN Raise    \* cannot unpack / no .columns
    ELSE IF ~HasColumn(r.cols, code) THEN Ok(EmptyDataFrame)
    ELSE
        LET c == Date_to_timestamp(Col("Date", r.index.dtype, r.index.data))
        IN IF ~c.ok THEN Raise
           ELSE Ok(sort_values(<<c.col,
                                 Col("Value", "float64", TheColumn(r.cols, code).data)>>,
                               "Date"))

get_inflation_data(r) == except_Exception(rba_table_column_try(r, "GCPIOCPMTMYP"))

get_exp_inflation_data(r) == except_Exception(rba_table_column_try(r, "GMAREXPY"))

---------------------------------------------------------------------------
(* One call of one helper, and its date clean-up run again on the result *)

Helpers == {"get_rba_data", "get_abs_data", "get_inflation_data",
            "get_exp_inflation_data"}

NoResult == [raised |-> FALSE, error |-> FALSE, df |-> EmptyDataFrame]
NoColumn == [ok |-> FALSE, col |-> Col("", "", <<>>)]

DateName(f) == IF f = "get_abs_data" THEN "date" ELSE "Date"

ScriptIdle ==
    /\ pc = "idle" /\ resp = <<>> /\ df = <<>> /\ metric = <<>> /\ chart = <<>>
    /\ crashedAt = "none" /\ errors = {}
CacheIdle ==
    /\ now = 0 /\ cache = <<>> /\ lock = <<>> /\ sess = <<>> /\ got = <<>>

InitFetch ==
    /\ fn = "none" /\ raw = ErrorResp /\ out = NoResult /\ again = NoColumn
    /\ ScriptIdle /\ CacheIdle

Call_get_rba_data ==
    /\ fn = "none"
    /\ \/ \E r \in {ErrorResp, MalformedResp} :
            raw' = r /\ out' = get_rba_data(r)
       \/ \E i \in DateCols(NoName) : \E v \in ValueCol("OCR", Len(i.data)) :
            raw' = OcrSeries(i, v) /\ out' = get_rba_data(OcrSeries(i, v))
    /\ fn' = "get_rba_data"
    /\ UNCHANGED <<again, scriptVars, cacheVars>>

Call_get_abs_data ==
    /\ fn = "none"
    /\ \/ \E r \in {ErrorResp, MalformedResp} :
            raw' = r /\ out' = get_abs_data(r)
       \/ \E i \in DateCols(NoName) : \E v \in ValueCol("v", Len(i.data)) :
          \E cs \in AbsColumnLists(Len(i.data), v.data) : \E nm \in AbsIndexNames :
            raw' = AbsTable(nm, i, cs) /\ out' = get_abs_data(AbsTable(nm, i, cs))
    /\ fn' = "get_abs_data"
    /\ UNCHANGED <<again, scriptVars, cacheVars>>

Call_get_inflation_data ==
    /\ fn = "none"
    /\ \/ \E r \in {ErrorResp, MalformedResp} :
            raw' = r /\ out' = get_inflation_data(r)
       \/ \E i \in DateCols(NoName) : \E v \in ValueCol("v", Len(i.data)) :
          \E cs \in TableColumnLists("GCPIOCPMTMYP", v) :
            raw' = RbaTable(i, cs) /\ out' = get_inflation_data(RbaTable(i, cs))
    /\ fn' = "get_inflation_data"
    /\ UNCHANGED <<again, scriptVars, cacheVars>>

Call_get_exp_inflation_data ==
    /\ fn = "none"
    /\ \/ \E r \in {ErrorResp, MalformedResp} :
            raw' = r /\ out' = get_exp_inflation_data(r)
       \/ \E i \in DateCols(NoName) : \E v \in ValueCol("v", Len(i.data)) :
          \E cs \in TableColumnLists("GMAREXPY", v) :
            raw' = RbaTable(i, cs) /\ out' = get_exp_inflation_data(RbaTable(i, cs))
    /\ fn' = "get_exp_inflation_data"
    /\ UNCHANGED <<again, scriptVars, cacheVars>>

\* the helper's own date clean-up, applied to the date column it returned
CleanUpAgain ==
    /\ fn \in Helpers
    /\ again = NoColumn
    /\ ~out.raised /\ ~empty(out.df)
    /\ LET c == TheColumn(out.df, DateName(fn))
       IN again' = CASE fn = "get_rba_data" ->
                          [ok |-> TRUE, col |-> ocr_index_to_timestamp(c)]
                     [] fn = "get_abs_data" -> clean_up_date(c)
                     [] OTHER -> Date_to_timestamp(c)
    /\ UNCHANGED <<fn, raw, out, scriptVars, cacheVars>>

NextFetch ==
    \/ Call_get_rba_data
    \/ Call_get_abs_data
    \/ Call_get_inflation_data
    \/ Call_get_exp_inflation_data
    \/ CleanUpAgain

SpecFetch == InitFetch /\ [][NextFetch]_vars

---------------------------------------------------------------------------
(* The script body: Load Data, the metrics row, the charts row, the tables *)

Series == {"rba", "abs", "cpi", "exp"}
Cards == {"m1", "m2", "m3", "m4"}
Charts == {"col1", "col2"}

\* float subtraction: NaN in, NaN out
Sub(a, b) == IF a = NaN \/ b = NaN THEN NaN ELSE a - b

\* DataFrame.dropna(): the rows without a missing cell, in their order
dropna(d) ==
    LET keep == SelectSeq([i \in 1..NRows(d) |-> i],
                          LAMBDA i : \A c \in 1..Len(d) : d[c].data[i] # NaN)
    IN [c \in 1..Len(d) |-> [d[c] EXCEPT !.data = take(@, keep)]]

Unset == [crashed |-> FALSE, shown |-> "unset"]
NotAvailable == [crashed |-> FALSE, shown |-> "N/A"]
Crash == [crashed |-> TRUE, shown |-> "unset"]
Shown(latest, delta) ==
    [crashed |-> FALSE, shown |-> "value", latest |-> latest, delta |-> delta]
ShownLatest(latest) == [crashed |-> FALSE, shown |-> "value", latest |-> latest]

\* df[name].iloc[-1] and .iloc[-2], with their KeyError and IndexError; a
\* name carried by two columns selects a frame, which st.metric's format
\* string rejects (TypeError)
last_two(d, name) ==
    IF Cardinality(Where(d, name)) # 1 THEN Crash
    ELSE LET v == TheColumn(d, name).data
             n == Len(v)
         IN IF n < 2 THEN Crash
            ELSE Shown(v[n], Sub(v[n], v[n - 1]))

\* 1. RBA Cash Rate
metric_cash_rate(df_rba) ==
    IF ~empty(df_rba) THEN last_two(df_rba, "Cash Rate") ELSE NotAvailable

\* the mutant: the block without its "if not df_abs.empty" guard
metric_unemployment_unguarded(df_abs) == last_two(df_abs, "value")

\* 2. Unemployment
metric_unemployment(df_abs) ==
    IF ~empty(df_abs) THEN last_two(df_abs, "value") ELSE NotAvailable

\* 3. CPI (Trimmed) and 4. Exp. Inflation (1yr)
metric_latest_valid(d) ==
    IF ~empty(d)
    THEN LET valid == dropna(d)
         IN IF ~empty(valid)
            THEN LET v == TheColumn(valid, "Value").data
                 IN ShownLatest(v[Len(v)])
            ELSE NotAvailable
    ELSE NotAvailable

\* px.line(d, x=x, y=y) inside "if not d.empty": ValueError when x or y is
\* not a column of d
line_chart(d, x, y) ==
    IF ~empty(d)
    THEN IF HasColumn(d, x) /\ HasColumn(d, y)
         THEN [crashed |-> FALSE, shown |-> "chart"]
         ELSE Crash
    ELSE [crashed |-> FALSE, shown |-> "none"]

\* st.dataframe(d.sort_values(by, ascending=False)) inside "if not d.empty"
raw_data_tab(d, by) == empty(d) \/ HasColumn(d, by)

\* the representative provider answers of a script run: no rows, one row,
\* two rows, three equal values, a missing latest value, only missing values
ScriptValues ==
    {<<>>, <<410>>, <<410, 390>>, <<435, 435, 435>>, <<410, 390, NaN>>, <<NaN, NaN>>}

ScriptIndex(n) == Col(NoName, "period[M]", SubSeq(<<202401, 202402, 202403>>, 1, n))

ScriptOcr ==
    {ErrorResp, MalformedResp} \cup
    {OcrSeries(ScriptIndex(Len(v)), Col("OCR", "float64", v)) : v \in ScriptValues}

\* the ABS table as the provider documents it, without its value column,
\* and without any date column
ScriptAbs ==
    {ErrorResp, MalformedResp} \cup
    {AbsTable(p[1], ScriptIndex(Len(v)), <<Col(p[2], "float64", v)>>) :
        p \in {<<"Series ID", "A84423050A">>, <<"Series ID", "other">>,
               <<"Period", "A84423050A">>},
        v \in ScriptValues}

ScriptTable(code) ==
    {ErrorResp, MalformedResp} \cup
    {RbaTable(ScriptIndex(Len(v)), <<Col(c, "float64", v)>>) :
        c \in {code, "OTHER"}, v \in ScriptValues}

InitScript ==
    /\ pc = "load"
    /\ resp = [s \in Series |-> ErrorResp]
    /\ df = [s \in Series |-> EmptyDataFrame]
    /\ metric = [m \in Cards |-> Unset]
    /\ chart = [c \in Charts |-> Unset]
    /\ crashedAt = "none"
    /\ errors = {}
    /\ fn = "none" /\ raw = ErrorResp /\ out = NoResult /\ again = NoColumn
    /\ CacheIdle

\* with st.spinner(...): the four helpers are called one after the other
LoadData ==
    /\ pc = "load"
    /\ \E r1 \in ScriptOcr : \E r2 \in ScriptAbs :
       \E r3 \in ScriptTable("GCPIOCPMTMYP") : \E r4 \in ScriptTable("GMAREXPY") :
         LET res == [rba |-> get_rba_data(r1), abs |-> get_abs_data(r2),
                     cpi |-> get_inflation_data(r3),
                     exp |-> get_exp_inflation_data(r4)]
             bad == {s \in Series : res[s].raised}
         IN /\ resp' = [rba |-> r1, abs |-> r2, cpi |-> r3, exp |-> r4]
            /\ df' = [s \in Series |-> res[s].df]
            /\ errors' = {s \in Series : res[s].error}
            /\ pc' = IF bad = {} THEN "m1" ELSE "crashed"
            /\ crashedAt' = IF bad = {} THEN "none" ELSE "load"
    /\ UNCHANGED <<metric, chart, fetchVars, cacheVars>>

\* one card of the metrics row; an exception ends the script run
MetricBlock(at, card, next) ==
    /\ pc = at
    /\ metric' = [metric EXCEPT ![at] = card]
    /\ pc' = IF card.crashed THEN "crashed" ELSE next
    /\ crashedAt' = IF card.crashed THEN at ELSE crashedAt
    /\ UNCHANGED <<resp, df, chart, errors, fetchVars, cacheVars>>

Metric_m1 == MetricBlock("m1", metric_cash_rate(df["rba"]), "m2")
Metric_m2 == MetricBlock("m2", metric_unemployment(df["abs"]), "m3")
Metric_m3 == MetricBlock("m3", metric_latest_valid(df["cpi"]), "m4")
Metric_m4 == MetricBlock("m4", metric_latest_valid(df["exp"]), "col1")

ChartBlock(at, fig, next) ==
    /\ pc = at
    /\ chart' = [chart EXCEPT ![at] = fig]
    /\ pc' = IF fig.crashed THEN "crashed" ELSE next
    /\ crashedAt' = IF fig.crashed THEN at ELSE crashedAt
    /\ UNCHANGED <<resp, df, metric, errors, fetchVars, cacheVars>>

Chart_col1 == ChartBlock("col1", line_chart(df["rba"], "Date", "Cash Rate"), "col2")
Chart_col2 == ChartBlock("col2", line_chart(df["abs"], "date", "value"), "tabs")

\* with st.expander("View Raw Data"): the four tabs
RawDataTabs ==
    /\ pc = "tabs"
    /\ LET fine == /\ raw_data_tab(df["rba"], "Date") /\ raw_data_tab(df["abs"], "date")
                   /\ raw_data_tab(df["cpi"], "Date") /\ raw_data_tab(df["exp"], "Date")
       IN /\ pc' = IF fine THEN "done" ELSE "crashed"
          /\ crashedAt' = IF fine THEN crashedAt ELSE "tabs"
    /\ UNCHANGED <<resp, df, metric, chart, errors, fetchVars, cacheVars>>

NextScript ==
    \/ LoadData
    \/ Metric_m1
    \/ Metric_m2
    \/ Metric_m3
    \/ Metric_m4
    \/ Chart_col1
    \/ Chart_col2
    \/ RawDataTabs

SpecScript == InitScript /\ [][NextScript]_vars

---------------------------------------------------------------------------
(* @st.cache_data(ttl=3600): the helpers take no argument, so each has one
   cache entry; every browser session runs the script in its own thread *)

\* the mutant: the results are kept for half an hour
ttl_half_hour == 3600 \div 2

ttl == 3600

MaxClock == 5400

Sessions == {1, 2}

HelperSeq == <<"get_rba_data", "get_abs_data", "get_inflation_data",
               "get_exp_inflation_data">>

Absent == [present |-> FALSE]
Entry(d, t) == [present |-> TRUE, df |-> d, fetchedAt |-> t, expires |-> t + ttl]

\* an entry is served while the clock is before its expiry
Hit(e, t) == e.present /\ t < e.expires

NoRead == [helper |-> "none"]
ReadResult(k, e) ==
    [helper |-> k, df |-> e.df]

\* one provider failure and one good answer per helper
CacheTable == Col(NoName, "period[M]", <<202311, 202312>>)
CacheValues == Col("v", "float64", <<410, 390>>)

Outcomes(k) ==
    CASE k = "get_rba_data" ->
            {get_rba_data(r) : r \in {ErrorResp, OcrSeries(CacheTable, CacheValues)}}
      [] k = "get_abs_data" ->
            {get_abs_data(r) : r \in
                {ErrorResp,
                 AbsTable("Series ID", CacheTable,
                          <<Col("A84423050A", "float64", CacheValues.data)>>)}}
      [] k = "get_inflation_data" ->
            {get_inflation_data(r) : r \in
                {ErrorResp,
                 RbaTable(CacheTable, <<Col("GCPIOCPMTMYP", "float64", CacheValues.data)>>)}}
      [] OTHER ->
            {get_exp_inflation_data(r) : r \in
                {ErrorResp,
                 RbaTable(CacheTable, <<Col("GMAREXPY", "float64", CacheValues.data)>>)}}

InitCache ==
    /\ now = 0
    /\ cache = [k \in Helpers |-> Absent]
    /\ lock = [k \in Helpers |-> 0]
    /\ sess = [s \in Sessions |-> [i |-> 1, at |-> "read"]]
    /\ got = [s \in Sessions |-> NoRead]
    /\ fn = "none" /\ raw = ErrorResp /\ out = NoResult /\ again = NoColumn
    /\ ScriptIdle

Returned(s, k, e) ==
    /\ got' = [got EXCEPT ![s] = ReadResult(k, e)]
    /\ sess' = [sess EXCEPT ![s] = [i |-> sess[s].i + 1, at |-> "read"]]

\* the first look into the cache, without the lock
CacheRead(s) ==
    /\ sess[s].at = "read" /\ sess[s].i <= Len(HelperSeq)
    /\ LET k == HelperSeq[sess[s].i]
       IN IF Hit(cache[k], now)
          THEN Returned(s, k, cache[k])
          ELSE /\ sess' = [sess EXCEPT ![s].at = "miss"]
               /\ got' = got
    /\ UNCHANGED <<now, cache, lock, fetchVars, scriptVars>>

\* on a miss: take the helper's compute lock and look again
LockAndRecheck(s) ==
    /\ sess[s].at = "miss"
    /\ LET k == HelperSeq[sess[s].i]
       IN /\ lock[k] = 0
          /\ IF Hit(cache[k], now)
             THEN Returned(s, k, cache[k]) /\ lock' = lock
             ELSE /\ lock' = [lock EXCEPT ![k] = s]
                  /\ sess' = [sess EXCEPT ![s].at = "compute"]
                  /\ got' = got
    /\ UNCHANGED <<now, cache, fetchVars, scriptVars>>

\* still a miss under the lock: the helper body runs (the outbound call),
\* what it returns is stored, and the lock is released; an exception out of
\* the helper would be stored nowhere and would end the script run
ComputeAndStore(s) ==
    /\ sess[s].at = "compute"
    /\ LET k == HelperSeq[sess[s].i]
       IN \E res \in Outcomes(k) :
            /\ lock' = [lock EXCEPT ![k] = 0]
            /\ IF res.raised
               THEN /\ sess' = [sess EXCEPT ![s] = [i |-> Len(HelperSeq) + 1, at |-> "read"]]
                    /\ UNCHANGED <<cache, got>>
               ELSE /\ cache' = [cache EXCEPT ![k] = Entry(res.df, now)]
                    /\ Returned(s, k, Entry(res.df, now))
    /\ UNCHANGED <<now, fetchVars, scriptVars>>

\* the rest of the script ran; an interaction in the browser reruns it
Rerun(s) ==
    /\ sess[s].i = Len(HelperSeq) + 1
    /\ sess' = [sess EXCEPT ![s] = [i |-> 1, at |-> "read"]]
    /\ UNCHANGED <<now, cache, lock, got, fetchVars, scriptVars>>

\* time passes: half a ttl, or one second less than a ttl
Tick ==
    /\ \E d \in {ttl \div 2, ttl - 1} :
         /\ now + d <= MaxClock
         /\ now' = now + d
    /\ UNCHANGED <<cache, lock, sess, got, fetchVars, scriptVars>>

NextCache ==
    \/ \E s \in Sessions : CacheRead(s)
    \/ \E s \in Sessions : LockAndRecheck(s)
    \/ \E s \in Sessions : ComputeAndStore(s)
    \/ \E s \in Sessions : Rerun(s)
    \/ Tick

SpecCache == InitCache /\ [][NextCache]_vars

---------------------------------------------------------------------------
(* Properties of one helper call *)

Called == fn \in Helpers

OutDates == TheColumn(out.df, DateName(fn))

\* the table get_abs_data works on after steps 1 and 2
AbsLowered(r) == lower_columns(reset_index(r).df)

\* the column of the provider's answer that the helper takes its dates from
RawDates ==
    IF fn = "get_abs_data"
    THEN LET d == AbsLowered(raw)
         IN d[CHOOSE i \in 1..Len(d) : d[i].name \in {"series id", "index", "date"}]
    ELSE raw.index

NonDecreasing(s) == \A i \in 1..Len(s) : \A j \in 1..Len(s) : i < j => s[i] <= s[j]
StrictlyIncreasing(s) == \A i \in 1..Len(s) : \A j \in 1..Len(s) : i < j => s[i] < s[j]

\* C1: whatever the provider does (raises, answers with something that is no
\* table, answers with a table that lacks the expected column, or succeeds),
\* no helper raises to its caller: it hands back a frame, and on every
\* failure that frame is the empty one, which the script shows as "N/A".
C1_HelperNeverRaises ==
    Called =>
        /\ ~out.raised
        /\ (out.error => out.df = EmptyDataFrame /\ empty(out.df))
        /\ (raw.kind \in {"error", "malformed"} => out.error)
        /\ ((fn = "get_inflation_data" /\ raw.kind = "ok"
                /\ ~HasColumn(raw.cols, "GCPIOCPMTMYP")) => empty(out.df))
        /\ ((fn = "get_exp_inflation_data" /\ raw.kind = "ok"
                /\ ~HasColumn(raw.cols, "GMAREXPY")) => empty(out.df))

\* an exception inside get_abs_data (a table without any date column) was
\* turned into the empty frame
C1_Witness ==
    /\ fn = "get_abs_data" /\ raw.kind = "ok"
    /\ raw.index.name = "Period" /\ Len(raw.cols) = 1
    /\ out.error /\ ~out.raised /\ out.df = EmptyDataFrame

BothSeriesIdAndIndex ==
    /\ fn = "get_abs_data" /\ raw.kind = "ok" /\ reset_index(raw).ok
    /\ HasColumn(AbsLowered(raw), "series id")
    /\ HasColumn(AbsLowered(raw), "index")

\* C5: when the lower-cased ABS table has both a 'series id' and an 'index'
\* column, the result has exactly one column named 'date', and it holds the
\* (cleaned, sorted) values of 'series id'; 'index' is not renamed.
C5_SeriesIdWinsOverIndex ==
    BothSeriesIdAndIndex =>
        /\ Cardinality(Where(out.df, "date")) = 1
        /\ LET c == clean_up_date(TheColumn(AbsLowered(raw), "series id")).col
           IN TheColumn(out.df, "date").data = take(c.data, argsort(c.data))

\* C6 as stated: the dates of every non-empty result are strictly increasing,
\* also when the provider repeats a date.
C6_StrictlyIncreasing ==
    (Called /\ ~empty(out.df)) => StrictlyIncreasing(OutDates.data)

\* C6 as amended: the dates of every non-empty result are in ascending
\* (non-decreasing) order for every input row order, and every row of the
\* provider's answer is kept, so a date the provider repeats is repeated in
\* the result; the dates are strictly increasing when the provider's dates
\* are distinct.
C6_NonDecreasing ==
    (Called /\ ~empty(out.df)) =>
        /\ NonDecreasing(OutDates.data)
        /\ NRows(out.df) = Len(raw.index.data)
        /\ (Cardinality({RawDates.data[i] : i \in 1..Len(RawDates.data)})
                = Len(RawDates.data) => StrictlyIncreasing(OutDates.data))

\* rows given out of order with a repeated date, returned in order
C6_Witness ==
    /\ Called /\ raw.kind = "ok" /\ ~empty(out.df)
    /\ raw.index.data = <<20240101, 20231101, 20240101>>
    /\ OutDates.data = <<20231101, 20240101, 20240101>>

IsFirstDayOf(t, dtype, p) ==
    /\ t % 100 = 1
    /\ IF dtype = "period[M]"
       THEN t \div 10000 = p \div 100 /\ (t \div 100) % 100 = p % 100
       ELSE t \div 10000 = p \div 10 /\ (t \div 100) % 100 = 3 * (p % 10) - 2

PeriodCase ==
    /\ Called /\ raw.kind = "ok" /\ ~empty(out.df)
    /\ IsPeriodDtype(RawDates.dtype)

\* C9: in each of the four helpers, when the date column (or index) holds
\* monthly or quarterly period labels, every label comes out as the first
\* calendar day of its period (2023-11 as 2023-11-01, 2023Q4 as 2023-10-01).
C9_PeriodCoercion ==
    PeriodCase =>
        /\ OutDates.dtype = "datetime64"
        /\ Len(OutDates.data) = Len(RawDates.data)
        /\ \A i \in 1..Len(RawDates.data) : \E j \in 1..Len(OutDates.data) :
               IsFirstDayOf(OutDates.data[j], RawDates.dtype, RawDates.data[i])
        /\ \A j \in 1..Len(OutDates.data) : \E i \in 1..Len(RawDates.data) :
               IsFirstDayOf(OutDates.data[j], RawDates.dtype, RawDates.data[i])
        /\ (RawDates.dtype = "period[M]" /\ RawDates.data = <<202311>>
                => OutDates.data = <<20231101>>)
        /\ (RawDates.dtype = "period[Q]" /\ RawDates.data = <<20234>>
                => OutDates.data = <<20231001>>)

\* the quarter 2023Q4 in the ABS table's index came out as 2023-10-01
C9_Witness ==
    /\ PeriodCase /\ fn = "get_abs_data"
    /\ RawDates.dtype = "period[Q]" /\ RawDates.data = <<20241, 20234>>
    /\ OutDates.data = <<20231001, 20240101>>

\* C10: the date clean-up is idempotent: dates that are already timestamps
\* come out unchanged (only reordered by the sort), and putting the dates a
\* helper returned through its clean-up a second time changes nothing, for
\* period-labelled and for timestamp inputs.
C10_CoercionIdempotent ==
    /\ (/\ Called /\ raw.kind = "ok" /\ ~empty(out.df)
        /\ RawDates.dtype = "datetime64")
          => OutDates.data = take(RawDates.data, argsort(RawDates.data))
    /\ again # NoColumn => again.ok /\ again.col = OutDates

\* period labels were cleaned once, and the second clean-up left them alone
C10_Witness ==
    /\ fn = "get_abs_data" /\ raw.kind = "ok"
    /\ raw.index.dtype = "period[M]" /\ raw.index.data = <<202312, 202311>>
    /\ again.ok /\ again.col.data = <<20231101, 20231201>>

---------------------------------------------------------------------------
(* Properties of a script run *)

Loaded == pc # "load"

\* the blocks after the Unemployment card
PastM2 == pc \in {"m3", "m4", "col1", "col2", "tabs", "done"}

AbsAnswered == Loaded /\ resp["abs"].kind = "ok" /\ reset_index(resp["abs"]).ok

AbsHasDate ==
    \E n \in {"date", "index", "series id"} : HasColumn(AbsLowered(resp["abs"]), n)

AbsHasValue ==
    \E n \in {"value", "a84423050a"} : HasColumn(AbsLowered(resp["abs"]), n)

\* C2: an ABS table with a date column but neither a 'value' column nor a
\* column named after the series code gives the empty series downstream, and
\* the Unemployment card shows "N/A"; neither the card nor the chart raises.
C2_MissingValueColumnShowsNA ==
    (AbsAnswered /\ AbsHasDate /\ ~AbsHasValue) =>
        /\ empty(df["abs"])
        /\ crashedAt \notin {"m2", "col2"}
        /\ (PastM2 => metric["m2"] = NotAvailable)

\* C3: an ABS table that, after the index reset and the lower-casing, has
\* none of the columns 'date', 'index', 'series id' makes get_abs_data report
\* the failure and return the empty frame, and the Unemployment card, once
\* the script is past it, shows "N/A"; neither the load nor the card raises.
C3_MissingDateColumnShowsNA ==
    (AbsAnswered /\ ~AbsHasDate) =>
        /\ "abs" \in errors
        /\ empty(df["abs"])
        /\ crashedAt \notin {"load", "m2", "col2"}
        /\ metric["m2"] \in {Unset, NotAvailable}
        /\ (PastM2 => metric["m2"] = NotAvailable)

\* a run over a three-row ABS table without a date column reached its end
\* with the Unemployment card on "N/A"
C3_Witness ==
    /\ AbsAnswered /\ ~AbsHasDate /\ Len(resp["abs"].index.data) = 3
    /\ pc = "done" /\ metric["m2"] = NotAvailable /\ chart["col2"].shown = "none"

\* C4: whatever each series' provider does, the script run completes, and
\* every card is rendered (with a value or with "N/A").
C4_FullIsolation ==
    /\ pc # "crashed"
    /\ (pc = "done" => \A m \in Cards : metric[m].shown \in {"value", "N/A"})

\* the non-missing values of a column, in row order
NonMissing(v) == SelectSeq(v, LAMBDA x : x # NaN)

FromLastTwoNonMissing(card, v) ==
    LET w == NonMissing(v)
    IN Len(w) >= 2 =>
          /\ card.latest = w[Len(w)]
          /\ card.delta = w[Len(w)] - w[Len(w) - 1]

LatestNonMissing(card, v) ==
    LET w == NonMissing(v) IN card.latest = w[Len(w)]

\* C8: every card that shows a value shows the last non-missing value of its
\* series, and the cash-rate and unemployment cards take their delta from
\* the last two non-missing values.
C8_LastTwoNonMissing ==
    /\ metric["m1"].shown = "value" =>
          FromLastTwoNonMissing(metric["m1"], TheColumn(df["rba"], "Cash Rate").data)
    /\ metric["m2"].shown = "value" =>
          FromLastTwoNonMissing(metric["m2"], TheColumn(df["abs"], "value").data)
    /\ metric["m3"].shown = "value" =>
          LatestNonMissing(metric["m3"], TheColumn(df["cpi"], "Value").data)
    /\ metric["m4"].shown = "value" =>
          LatestNonMissing(metric["m4"], TheColumn(df["exp"], "Value").data)

---------------------------------------------------------------------------
(* Properties of the cache *)

OneHour == 60 * 60

KeyOf(s) == HelperSeq[sess[s].i]

InWindow(e) == e.present /\ now < e.fetchedAt + OneHour

\* an outbound call is made only for a helper that has no result younger
\* than an hour, and what it returns, a failure included, is stored
OutboundCallOnlyOutsideWindow(s) ==
    ComputeAndStore(s) =>
        /\ ~InWindow(cache[KeyOf(s)])
        /\ cache'[KeyOf(s)].present
        /\ cache'[KeyOf(s)].fetchedAt = now

\* a helper call that returns hands back the stored result, which is less
\* than an hour old: the stored one if there was one in its window (no
\* outbound call), a newly fetched one otherwise
ReadWithinWindow(s) ==
    (sess[s].i <= Len(HelperSeq) /\ sess'[s].i = sess[s].i + 1) =>
        /\ cache'[KeyOf(s)].present
        /\ now < cache'[KeyOf(s)].fetchedAt + OneHour
        /\ got'[s] = [helper |-> KeyOf(s), df |-> cache'[KeyOf(s)].df]
        /\ (InWindow(cache[KeyOf(s)]) => cache'[KeyOf(s)] = cache[KeyOf(s)])
        /\ (~InWindow(cache[KeyOf(s)]) => cache'[KeyOf(s)].fetchedAt = now)

AtMostOneComputing ==
    \A k \in Helpers :
        Cardinality({s \in Sessions : sess[s].at = "compute" /\ KeyOf(s) = k}) <= 1

\* C7: each helper's result is cached for one hour: once a fetch has
\* completed, with a table or with a failure, every call within the hour
\* returns that result without an outbound call; the first call after the
\* hour fetches anew; and sessions that miss at the same time make one
\* outbound call between them.
C7_OneHourCache ==
    /\ []AtMostOneComputing
    /\ [][\A s \in Sessions : OutboundCallOnlyOutsideWindow(s)]_vars
    /\ [][\A s \in Sessions : ReadWithinWindow(s)]_vars

\* a cached failure has expired; session 1 holds the compute lock and is
\* about to fetch again while session 2, which missed as well, waits
C7_Witness ==
    \E k \in Helpers :
        /\ cache[k].present /\ empty(cache[k].df) /\ now >= cache[k].fetchedAt + OneHour
        /\ lock[k] = 1 /\ sess[1].at = "compute" /\ KeyOf(1) = k
        /\ sess[2].at = "miss" /\ KeyOf(2) = k

====
